---------------------------- MODULE Spec2Model ----------------------------
(***************************************************************************)
(* Model of the signal tracker: scraper.py (page extraction and value      *)
(* normalisation), db.py (roster and history store) and main.py (the       *)
(* periodic sweep and the administrative handlers).                        *)
(*                                                                         *)
(* Conventions.                                                            *)
(*   - A Python value that may be None is a set with at most one element:  *)
(*     None is {} and v is {v}.                                            *)
(*   - A Python str is a sequence of one-character strings.                *)
(*   - A Python float is an integer number of 1/Scale (fixed point); the   *)
(*     page texts of the model carry at most one fractional digit, so the  *)
(*     representation is exact on them.                                    *)
(***************************************************************************)
EXTENDS Integers, Sequences, FiniteSets, TLC

\* ------------------------------------------------------------------ bounds
\* Largest value of the wall clock, in seconds (time.time() truncated).
MaxTime == 2

\* ------------------------------------------------------- optional values
None == {}

Some(v) == {v}

IsNone(x) == x = {}

Val(x) == CHOOSE v \in x : TRUE

\* ------------------------------------------------------------ characters
Digits == <<"0", "1", "2", "3", "4", "5", "6", "7", "8", "9">>

IsDigit(c) == \E k \in 1..10 : Digits[k] = c

DigitVal(c) == (CHOOSE k \in 1..10 : Digits[k] = c) - 1

IsSpace(c) == c \in {" ", "\n", "\t"}

IsCharAt(s, i, cs) == i >= 1 /\ i <= Len(s) /\ s[i] \in cs

IsDigitAt(s, i) == i >= 1 /\ i <= Len(s) /\ IsDigit(s[i])

\* Number of consecutive digits of s starting at index j (regex \d* / \d+).
DigitRun(s, j) ==
    IF IsDigitAt(s, j)
    THEN (CHOOSE e \in j..Len(s) :
             /\ \A k \in j..e : IsDigit(s[k])
             /\ ~IsDigitAt(s, e + 1)) - j + 1
    ELSE 0

\* Number of consecutive whitespace characters of s starting at j (regex \s+).
SpaceRun(s, j) ==
    IF IsCharAt(s, j, {" ", "\n", "\t"})
    THEN (CHOOSE e \in j..Len(s) :
             /\ \A k \in j..e : IsSpace(s[k])
             /\ ~IsCharAt(s, e + 1, {" ", "\n", "\t"})) - j + 1
    ELSE 0

\* int("<digits>") of s[a..b].
RECURSIVE IntOf(_, _, _)
IntOf(s, a, b) ==
    IF b < a THEN 0 ELSE IntOf(s, a, b - 1) * 10 + DigitVal(s[b])

\* str.strip()
Strip(s) ==
    IF \A k \in 1..Len(s) : IsSpace(s[k])
    THEN <<>>
    ELSE LET a == CHOOSE i \in 1..Len(s) :
                     ~IsSpace(s[i]) /\ \A k \in 1..(i - 1) : IsSpace(s[k])
             b == CHOOSE i \in 1..Len(s) :
                     ~IsSpace(s[i]) /\ \A k \in (i + 1)..Len(s) : IsSpace(s[k])
         IN  SubSeq(s, a, b)

\* A variant that removes nothing.
Without_nothing(s, cs) == s

\* str.replace(c, "") for every character c of cs.
Without(s, cs) == SelectSeq(s, LAMBDA c : c \notin cs)

\* s.startswith(p) at offset i (1-based): s[i..] begins with p.
HasPrefixAt(s, i, p) ==
    /\ i >= 1
    /\ i + Len(p) - 1 <= Len(s)
    /\ \A k \in 1..Len(p) : s[i + k - 1] = p[k]

\* ASCII lower-casing of the letters the labels use (re.I).
Upper == <<"A", "B", "C", "D", "E", "F", "G", "H", "I", "J", "K", "L", "M",
           "N", "O", "P", "Q", "R", "S", "T", "U", "V", "W", "X", "Y", "Z">>

Lower == <<"a", "b", "c", "d", "e", "f", "g", "h", "i", "j", "k", "l", "m",
           "n", "o", "p", "q", "r", "s", "t", "u", "v", "w", "x", "y", "z">>

ToLower(c) ==
    IF \E k \in 1..26 : Upper[k] = c
    THEN Lower[CHOOSE k \in 1..26 : Upper[k] = c]
    ELSE c

\* re.compile(re.escape(p), re.I).search(s): p occurs in s, ignoring case.
SearchI(p, s) ==
    \E i \in 1..(Len(s) - Len(p) + 1) :
        \A k \in 1..Len(p) : ToLower(s[i + k - 1]) = ToLower(p[k])

\* --------------------------------------------------------- scraper._num
\* One unit of a float value is 1/Scale.
Scale == 10

\* Last index of a match of \d*\.?\d+ starting at j, or 0 when there is none.
BodyEnd(s, j) ==
    LET d == DigitRun(s, j)
        e == IF IsCharAt(s, j + d, {"."}) THEN DigitRun(s, j + d + 1) ELSE 0
    IN  IF e >= 1 THEN j + d + e
        ELSE IF d >= 1 THEN j + d - 1
        ELSE 0

\* Last index of a match of [-+]?\d*\.?\d+ starting at i, or 0.
NumEnd(s, i) ==
    IF IsCharAt(s, i, {"-", "+"}) THEN BodyEnd(s, i + 1) ELSE BodyEnd(s, i)

\* float(m.group(0)) for the match s[i..e], in units of 1/Scale.
FloatOf(s, i, e) ==
    LET signed == IsCharAt(s, i, {"-", "+"})
        j      == IF signed THEN i + 1 ELSE i
        d      == DigitRun(s, j)
        whole  == IntOf(s, j, j + d - 1)
        frac   == IF j + d < e THEN DigitVal(s[j + d + 1]) ELSE 0
        mag    == whole * Scale + frac
    IN  IF signed /\ s[i] = "-" THEN 0 - mag ELSE mag

\* neg = s.startswith("(") and s.endswith(")")
IsParen(s) == Len(s) >= 1 /\ s[1] = "(" /\ s[Len(s)] = ")"

\* Index of the leftmost match of re.search(r"[-+]?\d*\.?\d+", s), or 0.
FirstNum(s) ==
    IF \A i \in 1..Len(s) : NumEnd(s, i) = 0
    THEN 0
    ELSE CHOOSE i \in 1..Len(s) :
             NumEnd(s, i) # 0 /\ \A k \in 1..(i - 1) : NumEnd(s, k) = 0

\* "if not m: return None", "num = float(m.group(0))",
\* "return -num if neg else num".
NumAt(s, i, neg) ==
    IF i = 0 THEN None
    ELSE Some(IF neg THEN 0 - FloatOf(s, i, NumEnd(s, i))
              ELSE FloatOf(s, i, NumEnd(s, i)))

\* s = s.replace(",", "").replace(" ", ""), then the search in s.
NumIn(s, neg) == NumAt(s, FirstNum(s), neg)

\* _num on the stripped text: the parentheses are cut off when neg.
NumOfStripped(s0) ==
    NumIn(Without(IF IsParen(s0) THEN SubSeq(s0, 2, Len(s0) - 1) ELSE s0, {",", " "}),
          IsParen(s0))

\* _num(text): "if text is None: return None", then s = text.strip().
_num(text) == IF IsNone(text) THEN None ELSE NumOfStripped(Strip(Val(text)))

\* int(x) of a float: truncation toward zero.
IntTrunc(x) == IF x >= 0 THEN x \div Scale ELSE 0 - ((0 - x) \div Scale)


\* ------------------------------------------------------ pages (the HTML)
\* A fetched page, as far as scrape() reads it: the text of <h1 class=
\* "title-min"> when there is one, and the two labelled regions in document
\* order. An entry is a label <div> with its string, and the text of the value
\* <div> found under the label's parent when there is one.
Entry(label, value) == [label |-> label, value |-> value]

L_Growth == <<"G", "r", "o", "w", "t", "h", ":">>

L_Weeks == <<"W", "e", "e", "k", "s", ":">>

L_Started == <<"S", "t", "a", "r", "t", "e", "d", ":">>

L_LatestTrade == <<"L", "a", "t", "e", "s", "t", " ", "t", "r", "a", "d", "e", ":">>

L_ByBalance == <<"B", "y", " ", "B", "a", "l", "a", "n", "c", "e", ":">>

L_Monthly == <<"M", "o", "n", "t", "h", "l", "y", " ", "g", "r", "o", "w", "t", "h", ":">>

L_Trades == <<"T", "r", "a", "d", "e", "s", ":">>

L_ProfitTrades == <<"P", "r", "o", "f", "i", "t", " ", "T", "r", "a", "d", "e", "s", ":">>

L_LossTrades == <<"L", "o", "s", "s", " ", "T", "r", "a", "d", "e", "s", ":">>

ListA ==
    << Entry(L_Growth, Some(<<"1", "0", ".", "0", "%">>)),
       Entry(L_Weeks, Some(<<"1", "2">>)),
       Entry(L_Started, Some(<<"2", "0", "2", "1", ".", "0", "3", ".", "0", "4">>)),
       Entry(L_LatestTrade, Some(<<"2", " ", "h", "o", "u", "r", "s", " ", "a", "g", "o">>)) >>

ColsA ==
    << Entry(L_Trades, Some(<<"1", ",", "0", "2", "4">>)),
       Entry(L_ProfitTrades, Some(<<"7", "0", "0", " ", "(", "6", "8", ".", "3", "%", ")">>)),
       Entry(L_LossTrades, Some(<<"3", "2", "4">>)),
       Entry(L_ByBalance, Some(<<"1", "2", ".", "3", "%">>)),
       Entry(L_Monthly, Some(<<"(", "1", ".", "5", "%", ")">>)) >>

\* A complete page.
PageA == [title |-> Some(<<" ", "A", " ">>), list |-> ListA, cols |-> ColsA]

\* The same signal later, with gaps that scrape() survives: growth and two
\* trade counts moved, the "Started:" label is gone, the latest trade and the
\* loss trades are unparseable, a label is in another case.
PageB ==
    [title |-> Some(<<" ", "A", " ">>),
     list  |-> << Entry(L_Growth, Some(<<"1", "2", ".", "5", "%">>)),
                  Entry(<<"W", "E", "E", "K", "S", ":">>, Some(<<"1", "2">>)),
                  Entry(L_LatestTrade, Some(<<"n", "/", "a">>)) >>,
     cols  |-> << Entry(L_Trades, Some(<<"1", ",", "0", "2", "5">>)),
                  Entry(L_ProfitTrades, Some(<<"7", "0", "1", " ", "(", "6", "8", ".", "3", "%", ")">>)),
                  Entry(L_LossTrades, Some(<<"-">>)),
                  Entry(L_ByBalance, Some(<<"1", "2", ".", "3", "%">>)),
                  Entry(L_Monthly, Some(<<"(", "1", ".", "5", "%", ")">>)) >>]

\* The complete page as it was when the earlier run fetched it: the figures
\* of PageA, the latest trade one hour older.
PageBefore ==
    [title |-> Some(<<" ", "A", " ">>),
     list  |-> << ListA[1], ListA[2], ListA[3],
                  Entry(L_LatestTrade, Some(<<"3", " ", "h", "o", "u", "r", "s", " ", "a", "g", "o">>)) >>,
     cols  |-> ColsA]

\* A page with none of the regions (a template change, a login wall).
PageEmpty == [title |-> None, list |-> << >>, cols |-> << >>]

\* The complete page whose "By Balance:" label has no value container.
PageNoValue ==
    [title |-> Some(<<" ", "A", " ">>),
     list  |-> ListA,
     cols  |-> << ColsA[1], ColsA[2], ColsA[3], Entry(L_ByBalance, None), ColsA[5] >>]

\* A page that gives the roster nothing: no <h1 class="title-min">, no
\* "Started:" and no "Latest trade:" label, "Weeks:" without a number; the
\* figures are those of PageA.
PageBare ==
    [title |-> None,
     list  |-> << ListA[1], Entry(L_Weeks, Some(<<"n", "/", "a">>)) >>,
     cols  |-> ColsA]

Pages == {PageA, PageB, PageEmpty, PageNoValue}

\* soup.find("div", class_=<label class>, string=pat), then the value <div>
\* under label.parent: the value of the first entry whose label matches.
Lookup(region, label_text) ==
    LET pat == Strip(label_text)
    IN  IF \A k \in 1..Len(region) : ~SearchI(pat, region[k].label)
        THEN None
        ELSE LET k == CHOOSE k \in 1..Len(region) :
                          /\ SearchI(pat, region[k].label)
                          /\ \A j \in 1..(k - 1) : ~SearchI(pat, region[j].label)
             IN  region[k].value

by_label(page, label_text) == Lookup(page.list, label_text)

stats_label(page, text) == Lookup(page.cols, text)

\* re.search(r"(\d{4})", val), int(m.group(1)).
YearOf(val) ==
    IF \A i \in 1..Len(val) : DigitRun(val, i) < 4
    THEN None
    ELSE LET i == CHOOSE i \in 1..Len(val) :
                      DigitRun(val, i) >= 4 /\ \A k \in 1..(i - 1) : DigitRun(val, k) < 4
         IN  Some(IntOf(val, i, i + 3))

\* A variant whose "second" has the multiplier 1.
Units_second_as_minute ==
    << [word |-> <<"s", "e", "c", "o", "n", "d">>, per |-> 1, div |-> 1],
       [word |-> <<"m", "i", "n", "u", "t", "e">>, per |-> 1, div |-> 1],
       [word |-> <<"h", "o", "u", "r">>, per |-> 60, div |-> 1],
       [word |-> <<"d", "a", "y">>, per |-> 60 * 24, div |-> 1],
       [word |-> <<"w", "e", "e", "k">>, per |-> 60 * 24 * 7, div |-> 1],
       [word |-> <<"m", "o", "n", "t", "h">>, per |-> 60 * 24 * 30, div |-> 1] >>

\* The units of "Latest trade:" with their multipliers in minutes; second is
\* 1/60, and int(num * (1/60)) equals num \div 60 for every num below 100000.
Units ==
    << [word |-> <<"s", "e", "c", "o", "n", "d">>, per |-> 1, div |-> 60],
       [word |-> <<"m", "i", "n", "u", "t", "e">>, per |-> 1, div |-> 1],
       [word |-> <<"h", "o", "u", "r">>, per |-> 60, div |-> 1],
       [word |-> <<"d", "a", "y">>, per |-> 60 * 24, div |-> 1],
       [word |-> <<"w", "e", "e", "k">>, per |-> 60 * 24 * 7, div |-> 1],
       [word |-> <<"m", "o", "n", "t", "h">>, per |-> 60 * 24 * 30, div |-> 1] >>

\* Index in Units of the alternative of (second|minute|hour|day|week|month)
\* matching at s[j..], or 0.
UnitAt(s, j) ==
    IF \E u \in 1..Len(Units) : HasPrefixAt(s, j, Units[u].word)
    THEN CHOOSE u \in 1..Len(Units) :
             /\ HasPrefixAt(s, j, Units[u].word)
             /\ \A v \in 1..(u - 1) : ~HasPrefixAt(s, j, Units[v].word)
    ELSE 0

\* re.search(r"(\d+)\s+(second|minute|hour|day|week|month)", s) at index i.
DurationAt(s, i) ==
    LET d == DigitRun(s, i)
        w == SpaceRun(s, i + d)
    IN  IF d >= 1 /\ w >= 1 THEN UnitAt(s, i + d + w) ELSE 0

\* latest_trade of scrape(): whole minutes, or None.
MinutesOf(lt_val) ==
    IF \A i \in 1..Len(lt_val) : DurationAt(lt_val, i) = 0
    THEN None
    ELSE LET i   == CHOOSE i \in 1..Len(lt_val) :
                        DurationAt(lt_val, i) # 0
                        /\ \A k \in 1..(i - 1) : DurationAt(lt_val, k) = 0
             num == IntOf(lt_val, i, i + DigitRun(lt_val, i) - 1)
             u   == Units[DurationAt(lt_val, i)]
         IN  Some((num * u.per) \div u.div)

\* int(x) if x is not None else None
IntOrNone(x) == IF IsNone(x) THEN None ELSE Some(IntTrunc(Val(x)))

\* The labels scrape() dereferences as (lookup or {}).get_text(): a missing
\* one raises AttributeError, a dict has no get_text.
Unguarded(page) ==
    { by_label(page, L_Weeks), stats_label(page, L_ByBalance),
      stats_label(page, L_Monthly), stats_label(page, L_Trades),
      stats_label(page, L_ProfitTrades), stats_label(page, L_LossTrades) }

\* scrape() after the fetch: the parsed fields of a page, and whether the
\* parse raised. The "ts" key is added by scrape_result.
scrape_parse(page) ==
    LET started == by_label(page, L_Started)
        lt_val  == by_label(page, L_LatestTrade)
    IN  [raised |-> None \in Unguarded(page),
         data |->
            [name           |-> IF IsNone(page.title) THEN None
                                ELSE Some(Strip(Val(page.title))),
             growth         |-> _num(by_label(page, L_Growth)),
             weeks          |-> IntOrNone(_num(by_label(page, L_Weeks))),
             drawdown       |-> _num(stats_label(page, L_ByBalance)),
             monthly_growth |-> _num(stats_label(page, L_Monthly)),
             start_year     |-> IF IsNone(started) \/ Val(started) = << >>
                                THEN None ELSE YearOf(Val(started)),
             latest_trade   |-> IF IsNone(lt_val) \/ Val(lt_val) = << >>
                                THEN None ELSE MinutesOf(Val(lt_val)),
             trades         |-> IntOrNone(_num(stats_label(page, L_Trades))),
             profit_trades  |-> IntOrNone(_num(stats_label(page, L_ProfitTrades))),
             loss_trades    |-> IntOrNone(_num(stats_label(page, L_LossTrades)))]]

\* The parse of every page of the model.
Parsed == [p \in Pages \cup {PageBare} |-> scrape_parse(p)]

\* The dict scrape() returns: "ts": int(time.time()) and the parsed fields.
WithTs(d, t) ==
    [ts |-> t, name |-> d.name, growth |-> d.growth, weeks |-> d.weeks,
     drawdown |-> d.drawdown, monthly_growth |-> d.monthly_growth,
     start_year |-> d.start_year, latest_trade |-> d.latest_trade,
     trades |-> d.trades, profit_trades |-> d.profit_trades,
     loss_trades |-> d.loss_trades]

\* scrape(): the dict returned for a page fetched at wall-clock time t.
scrape_result(page, t) == WithTs(Parsed[page].data, t)

\* ------------------------------------------------------------ db: signals
\* Signal ids are TEXT: strings of digits (re_sig's group).
Id9 == <<"9">>

Id10 == <<"1", "0">>

Ids == {Id9, Id10}

\* A signal that was tracked and removed before the program started.
IdGone == <<"7">>

\* TEXT comparison of two digit strings (BINARY collation): a < b.
LexLess(a, b) ==
    \/ /\ Len(a) < Len(b)
       /\ \A k \in 1..Len(a) : a[k] = b[k]
    \/ \E i \in 1..Len(a) :
          /\ i <= Len(b)
          /\ \A k \in 1..(i - 1) : a[k] = b[k]
          /\ DigitVal(a[i]) < DigitVal(b[i])

\* The rows of a set ordered by id (ORDER BY id).
RECURSIVE OrderById(_)
OrderById(rs) ==
    IF rs = {} THEN << >>
    ELSE LET r == CHOOSE r \in rs : \A q \in rs : ~LexLess(q.id, r.id)
         IN  <<r>> \o OrderById(rs \ {r})

\* A variant with ORDER BY id DESC.
list_signals_desc(sigs) ==
    [k \in 1..Cardinality(sigs) |-> OrderById(sigs)[Cardinality(sigs) + 1 - k]]

list_signals(sigs) == OrderById(sigs)

signal_exists(sigs, sig_id) == \E r \in sigs : r.id = sig_id

\* add_signal: INSERT INTO signals; the PRIMARY KEY on id makes a second
\* insert of an id fail with IntegrityError, which returns False.
add_signal_ret(sigs, row) == ~signal_exists(sigs, row.id)

\* A variant whose table has no PRIMARY KEY on id.
add_signal_no_key(sigs, row) == sigs \cup {row}

\* A variant with INSERT OR REPLACE.
add_signal_replace(sigs, row) == {r \in sigs : r.id # row.id} \cup {row}

add_signal(sigs, row) ==
    IF signal_exists(sigs, row.id) THEN sigs ELSE sigs \cup {row}

SignalRow(sig_id, url, name, auto) ==
    [id |-> sig_id, url |-> url, name |-> name, weeks |-> None,
     latest_trade |-> None, start_year |-> None, auto |-> auto]

\* remove_signal: DELETE FROM signals WHERE id = ?; returns cur.rowcount.
remove_signal(sigs, sig_id) == {r \in sigs : r.id # sig_id}

\* A variant that also deletes the history rows of the signal.
remove_signal_history_cascade(hist, sig_id) == {r \in hist : r.sig_id # sig_id}

\* remove_signal has one statement, on the table signals: signal_history is
\* as it was.
remove_signal_history(hist, sig_id) == hist

remove_signal_ret(sigs, sig_id) == Cardinality({r \in sigs : r.id = sig_id})

\* A variant that sets every keyword argument, None too.
Keep_overwrite(new, old) == new

\* update_signal_info: only the keyword arguments that are not None are set.
Keep(new, old) == IF IsNone(new) THEN old ELSE new

update_signal_info(sigs, sig_id, d) ==
    { IF r.id = sig_id
      THEN [r EXCEPT !.name = Keep(d.name, @), !.weeks = Keep(d.weeks, @),
                     !.latest_trade = Keep(d.latest_trade, @),
                     !.start_year = Keep(d.start_year, @)]
      ELSE r : r \in sigs }

\* ----------------------------------------------------- db: signal_history
HistoryRow(sig_id, d) ==
    [sig_id |-> sig_id, ts |-> d.ts, name |-> d.name, drawdown |-> d.drawdown,
     monthly_growth |-> d.monthly_growth, start_year |-> d.start_year,
     latest_trade |-> d.latest_trade, weeks |-> d.weeks, growth |-> d.growth,
     trades |-> d.trades, profit_trades |-> d.profit_trades,
     loss_trades |-> d.loss_trades]

\* The dict the history reads return: the selected columns, without sig_id.
RowDict(r) ==
    [ts |-> r.ts, name |-> r.name, drawdown |-> r.drawdown,
     monthly_growth |-> r.monthly_growth, weeks |-> r.weeks, growth |-> r.growth,
     trades |-> r.trades, profit_trades |-> r.profit_trades,
     loss_trades |-> r.loss_trades, start_year |-> r.start_year,
     latest_trade |-> r.latest_trade]

\* PRIMARY KEY(sig_id, ts): a row with this key is stored.
HasKey(hist, sig_id, ts) == \E r \in hist : r.sig_id = sig_id /\ r.ts = ts

\* Variants of add_history: a plain INSERT, and INSERT OR REPLACE.
add_history_plain(hist, sig_id, d) == hist \cup {HistoryRow(sig_id, d)}

add_history_replace(hist, sig_id, d) ==
    {r \in hist : ~(r.sig_id = sig_id /\ r.ts = d.ts)} \cup {HistoryRow(sig_id, d)}

\* A variant that keeps one row per signal, the one it inserts.
add_history_latest_only(hist, sig_id, d) ==
    {r \in hist : r.sig_id # sig_id} \cup {HistoryRow(sig_id, d)}

\* A variant whose connection is closed without db.commit(): nothing is stored.
add_history_uncommitted(hist, sig_id, d) == hist

\* add_history: INSERT OR IGNORE INTO signal_history.
add_history(hist, sig_id, d) ==
    IF HasKey(hist, sig_id, d.ts) THEN hist ELSE hist \cup {HistoryRow(sig_id, d)}

\* A variant that returns whether a row was written (cur.rowcount == 1).
add_history_ret_rowcount(hist, sig_id, d) == Some(~HasKey(hist, sig_id, d.ts))

\* add_history has no return statement: every call returns None.
add_history_ret(hist, sig_id, d) == None

\* ... ORDER BY ts DESC LIMIT 1 over a set of selected rows.
FirstByTsDesc(sel) ==
    IF sel = {} THEN None
    ELSE Some(RowDict(CHOOSE r \in sel : \A q \in sel : q.ts <= r.ts))

\* A variant that skips the rows whose ts is 0.
latest_history_truthy_ts(hist, sig_id) ==
    FirstByTsDesc({r \in hist : r.sig_id = sig_id /\ r.ts # 0})

latest_history(hist, sig_id) ==
    FirstByTsDesc({r \in hist : r.sig_id = sig_id})

\* A variant with "ts < ?".
history_at_strict(hist, sig_id, ts) ==
    FirstByTsDesc({r \in hist : r.sig_id = sig_id /\ r.ts < ts})

history_at(hist, sig_id, ts) ==
    FirstByTsDesc({r \in hist : r.sig_id = sig_id /\ r.ts <= ts})

\* A variant with ORDER BY ts ASC: the oldest row below before_ts.
previous_history_oldest(hist, sig_id, before_ts) ==
    IF {r \in hist : r.sig_id = sig_id /\ r.ts < before_ts} = {} THEN None
    ELSE Some(RowDict(CHOOSE r \in hist :
                          /\ r.sig_id = sig_id /\ r.ts < before_ts
                          /\ \A q \in hist :
                                (q.sig_id = sig_id /\ q.ts < before_ts) => r.ts <= q.ts))

\* A variant with "ts <= ?".
previous_history_inclusive(hist, sig_id, before_ts) ==
    FirstByTsDesc({r \in hist : r.sig_id = sig_id /\ r.ts <= before_ts})

previous_history(hist, sig_id, before_ts) ==
    FirstByTsDesc({r \in hist : r.sig_id = sig_id /\ r.ts < before_ts})

\* A variant that skips ts and name only.
DiffKeys_with_latest_trade ==
    {"drawdown", "monthly_growth", "weeks", "growth", "trades",
     "profit_trades", "loss_trades", "start_year", "latest_trade"}

\* The keys history_diff compares: those of latest but ts, name, latest_trade.
DiffKeys ==
    {"drawdown", "monthly_growth", "weeks", "growth", "trades",
     "profit_trades", "loss_trades", "start_year"}

\* A variant that reads None as 0.
delta_none_as_zero(v, pv) ==
    Some((IF IsNone(v) THEN 0 ELSE Val(v)) - (IF IsNone(pv) THEN 0 ELSE Val(pv)))

\* (v - pv) if (v is not None and pv is not None) else None
delta(v, pv) ==
    IF ~IsNone(v) /\ ~IsNone(pv) THEN Some(Val(v) - Val(pv)) ELSE None

\* A variant whose diff starts as {} instead of None.
diff_of_empty(latest, prev) ==
    IF IsNone(prev) THEN Some([k \in {} |-> None])
    ELSE Some([k \in DiffKeys |-> delta(Val(latest)[k], Val(prev)[k])])

\* history_diff, lines 246-253: diff stays None without a previous row.
diff_of(latest, prev) ==
    IF IsNone(prev) THEN None
    ELSE Some([k \in DiffKeys |-> delta(Val(latest)[k], Val(prev)[k])])

\* history_diff once both reads are done: the returned dict (latest is a row).
history_diff_ret(latest, prev) ==
    [latest |-> Val(latest), previous |-> prev, diff |-> diff_of(latest, prev)]

\* A signal URL: the text before the id and the id re_sig finds in it.
Url(form, sig_id) == <<form, sig_id>>

\* What the add flows insert: text() inserts (sid, url, auto=False),
\* syncsubs_cmd inserts (s["id"], s["url"], name=s.get("name"), auto=True).
ManualRow(sig_id) == SignalRow(sig_id, Url("https://www.mql5.com/en/signals/", sig_id), None, FALSE)

SyncRow(sig_id) ==
    SignalRow(sig_id, Url("https://www.mql5.com/signals/", sig_id), Some(<<"A">>), TRUE)

AddRequests == {ManualRow(Id9), SyncRow(Id9)}

\* A second message to text() "sig_add" for the same signal: re_url finds
\* another URL, re_sig the same id in it.
OtherManualRow(sig_id) ==
    SignalRow(sig_id, Url("https://www.mql5.com/ru/signals/", sig_id), None, FALSE)

\* ------------------------------------------------------------ the system
\* The subscribers (db.list_user_ids); the users table is not changed here.
UserIds == <<1, 2>>

\* At most this many add flows are between their exists-check and insert.
MaxPending == 2

VARIABLES
    now,             \* int(time.time())
    signals,         \* table signals: a set of rows
    signal_history,  \* table signal_history: a set of rows
    pc,              \* periodic_scrape / scrape_all: where the loop stands
    rows,            \* scrape_all: rows, the keys the loop reads (id, url)
    idx,             \* scrape_all: idx (1-based)
    log,             \* the ids logger.exception reported in this sweep
    pend,            \* add flows past their signal_exists check
    stat,            \* menu_cb "stat_": history_diff between its two reads
    acked,           \* the (sig_id, ts) of the add_history calls that returned
    last             \* the call this step completed, with what it returned

vars == <<now, signals, signal_history, pc, rows, idx, log, pend, stat, acked, last>>

sweepVars == <<pc, rows, idx, log>>

NoCall == [op |-> "none"]

\* The database file outlives the process (db.init creates the tables only
\* if they do not exist): the program starts on what an earlier run left,
\* here two manually added signals, the first swept once at second 0, and the
\* history row of a signal that was swept at second 0 and then removed.
Persisted ==
    [signals |-> update_signal_info({ManualRow(Id9), ManualRow(Id10)}, Id9,
                                    WithTs(scrape_parse(PageBefore).data, 0)),
     signal_history |-> add_history(add_history({}, Id9, WithTs(scrape_parse(PageBefore).data, 0)),
                                    IdGone, scrape_result(PageB, 0))]

Init ==
    /\ now = 1
    /\ signals = Persisted.signals
    /\ signal_history = Persisted.signal_history
    /\ pc = "idle"
    /\ rows = << >>
    /\ idx = 0
    /\ log = << >>
    /\ pend = {}
    /\ stat = None
    /\ acked = {}
    /\ last = NoCall

\* The wall clock advances.
Tick ==
    /\ now < MaxTime
    /\ now' = now + 1
    /\ last' = NoCall
    /\ UNCHANGED <<acked, signals, signal_history, sweepVars, pend, stat>>

\* ------------------------------------------------- scrape_all, one sweep
\* The entity being processed.
Cur == rows[idx]

\* periodic_scrape calls scrape_all: rows = await db.list_signals(). With no
\* row the loop body never runs and periodic_scrape sleeps again.
SweepStart ==
    /\ pc = "idle"
    /\ rows' = [k \in 1..Cardinality(signals) |->
                   [id |-> list_signals(signals)[k].id, url |-> list_signals(signals)[k].url]]
    /\ idx' = IF rows' = << >> THEN 0 ELSE 1
    /\ pc' = IF rows' = << >> THEN "idle" ELSE "entity"
    /\ last' = [op |-> "list_signals", n |-> Len(rows')]
    /\ UNCHANGED <<now, acked, signals, signal_history, log, pend, stat>>

\* db.list_signals() or scraper.session() (db.get_auth_cookie) raises: both
\* are outside the try of scrape_all and of periodic_scrape, the task ends.
SweepCrash ==
    /\ pc = "idle"
    /\ pc' = "dead"
    /\ last' = [op |-> "periodic_scrape", raised |-> "storage"]
    /\ UNCHANGED <<now, acked, signals, signal_history, rows, idx, log, pend, stat>>

\* A variant without the except of line 141: a raising iteration ends the task.
EndEntity_propagates(raised) ==
    /\ pc' = IF raised THEN "dead" ELSE IF idx = Len(rows) THEN "idle" ELSE "delay"
    /\ rows' = IF idx = Len(rows) \/ raised THEN << >> ELSE rows
    /\ idx' = IF idx = Len(rows) \/ raised THEN 0 ELSE idx
    /\ log' = IF idx = Len(rows) \/ raised THEN << >>
              ELSE IF raised THEN Append(log, rows[idx].id) ELSE log

\* A variant that fetches the entity again when its iteration raised.
EndEntity_retry(raised) ==
    /\ pc' = IF raised THEN "entity" ELSE IF idx = Len(rows) THEN "idle" ELSE "delay"
    /\ rows' = IF idx = Len(rows) /\ ~raised THEN << >> ELSE rows
    /\ idx' = IF idx = Len(rows) /\ ~raised THEN 0 ELSE idx
    /\ log' = IF idx = Len(rows) /\ ~raised THEN << >> ELSE log

\* A variant that sleeps after every entity, the last one too.
EndEntity_always_sleeps(raised) ==
    /\ pc' = "delay"
    /\ rows' = rows
    /\ idx' = idx
    /\ log' = IF raised THEN Append(log, rows[idx].id) ELSE log

\* The end of one iteration of the for loop (lines 141-144): an exception of
\* the try body is logged and dropped, then the loop either sleeps
\* random.uniform(5, 15) or is over (scrape_all returns, its locals and the
\* log of the sweep are gone, periodic_scrape sleeps SCRAPE_INTERVAL).
EndEntity(raised) ==
    /\ pc' = IF idx = Len(rows) THEN "idle" ELSE "delay"
    /\ rows' = IF idx = Len(rows) THEN << >> ELSE rows
    /\ idx' = IF idx = Len(rows) THEN 0 ELSE idx
    /\ log' = IF idx = Len(rows) THEN << >>
              ELSE IF raised THEN Append(log, rows[idx].id) ELSE log

\* A variant with "if dv != 0": a delta of None counts as a change.
Changes_none_counts(diff) ==
    IF IsNone(diff) THEN {}
    ELSE {k \in DOMAIN Val(diff) : Val(diff)[k] # Some(0)}

\* The keys of a diff whose value is truthy: "if dv" (lines 127-129).
Changes(diff) ==
    IF IsNone(diff) THEN {}
    ELSE {k \in DOMAIN Val(diff) : ~IsNone(Val(diff)[k]) /\ Val(Val(diff)[k]) # 0}

\* db.history_diff(sig_id) on a store no append interleaves with.
history_diff(hist, sig_id) ==
    LET l == latest_history(hist, sig_id)
    IN  IF IsNone(l) THEN None
        ELSE Some(history_diff_ret(l, previous_history(hist, sig_id, Val(l).ts)))

\* "if info and info.get("diff")", then "if changes": the sweep notifies.
Notifies(inf) == ~IsNone(inf) /\ Changes(Val(inf).diff) # {}

\* A variant whose loop over the subscribers ends at the first send_message
\* that raises (no try around the send).
Deliveries_until_failure(oks) ==
    LET n == IF \A k \in 1..Len(UserIds) : oks[k] THEN Len(UserIds)
             ELSE CHOOSE k \in 1..Len(UserIds) :
                      ~oks[k] /\ \A j \in 1..(k - 1) : oks[j]
    IN  [k \in 1..n |-> [uid |-> UserIds[k], ok |-> oks[k]]]

\* "for uid in uids: try: await APP.bot.send_message(uid, text) except
\* Exception: pass" (lines 135-140): the send_message calls made, in order,
\* oks[k] telling whether the one to UserIds[k] succeeds.
Deliveries(oks) == [k \in 1..Len(UserIds) |-> [uid |-> UserIds[k], ok |-> oks[k]]]

\* The steps of one iteration of scrape_all (lines 115-140), in order; an
\* iteration ends at the first step that raises, or runs to "done".
Steps ==
    <<"fetch", "parse", "add_history", "update_signal_info", "history_diff",
      "list_user_ids", "done">>

StepNo(step) == CHOOSE k \in 1..Len(Steps) : Steps[k] = step

\* Step a is reached and does not raise in an iteration that ends at stop.
Past(stop, a) == StepNo(a) < StepNo(stop)

\* One iteration of the for loop of scrape_all for rows[idx], ending at step
\* stop: the try body up to the step that raises (the except of line 141
\* logs it), or all of it. The awaits of one iteration are taken in one step:
\* the sweep is the only writer of signal_history, and its roster update
\* touches the row of its id alone, as the handlers' statements do.
\* oks[k] tells whether send_message to UserIds[k] succeeds.
Iteration(stop, page, oks) ==
    \E d \in {scrape_result(page, now)} :
    \E hist2 \in {IF Past(stop, "add_history")
                  THEN add_history(signal_history, Cur.id, d) ELSE signal_history} :
    \E sigs2 \in {IF Past(stop, "update_signal_info")
                  THEN update_signal_info(signals, Cur.id, d) ELSE signals} :
    \E inf \in {IF Past(stop, "history_diff")
                THEN history_diff(hist2, Cur.id) ELSE None} :
    \E sends \in {IF Past(stop, "list_user_ids") /\ Notifies(inf)
                  THEN Deliveries(oks) ELSE << >>} :
        /\ signal_history' = hist2
        /\ signals' = sigs2
        /\ acked' = IF Past(stop, "add_history")
                     THEN acked \cup {[sig_id |-> Cur.id, ts |-> d.ts]} ELSE acked
        /\ last' = [op |-> "scrape_all", sig |-> Cur.id, idx |-> idx, n |-> Len(rows),
                    raised |-> stop,
                    page |-> IF stop = "fetch" THEN None ELSE Some(page),
                    data |-> IF Past(stop, "parse") THEN Some(d) ELSE None,
                    stored |-> Past(stop, "add_history")
                               /\ HasKey(signal_history, Cur.id, d.ts),
                    add_ret |-> add_history_ret(signal_history, Cur.id, d),
                    info |-> inf,
                    sends |-> sends,
                    logged |-> IF stop # "done" THEN Append(log, Cur.id) ELSE log]
        /\ EndEntity(stop # "done")
        /\ UNCHANGED <<now, pend, stat>>

AllOk == [k \in 1..Len(UserIds) |-> TRUE]

\* scraper.scrape: fetch_html raises (network error, timeout, non-2xx status).
SweepFetchFails ==
    /\ pc = "entity"
    /\ Iteration("fetch", PageEmpty, AllOk)

\* scraper.scrape: the page is fetched and the parse raises AttributeError.
SweepParseRaises ==
    /\ pc = "entity"
    /\ \E page \in Pages :
          /\ Parsed[page].raised
          /\ Iteration("parse", page, AllOk)

\* A db call of the iteration raises (database locked, disk full), writing
\* nothing; list_user_ids is only called when there are changes to send.
SweepDbRaises ==
    /\ pc = "entity"
    /\ \E page \in Pages :
          /\ ~Parsed[page].raised
          /\ \E stop \in {"add_history", "update_signal_info", "history_diff", "list_user_ids"} :
                /\ stop = "list_user_ids" =>
                      Notifies(history_diff(add_history(signal_history, Cur.id,
                                                        scrape_result(page, now)), Cur.id))
                /\ Iteration(stop, page, AllOk)

\* The iteration runs to its end: the row is appended, the roster refreshed,
\* the diff computed and, with changes, sent to every subscriber.
SweepEntityDone ==
    /\ pc = "entity"
    /\ \E page \in Pages :
          /\ ~Parsed[page].raised
          /\ IF Notifies(history_diff(add_history(signal_history, Cur.id,
                                                  scrape_result(page, now)), Cur.id))
             THEN \E oks \in [1..Len(UserIds) -> BOOLEAN] : Iteration("done", page, oks)
             ELSE Iteration("done", page, AllOk)

\* The iteration runs to its end on the page that gives the roster nothing.
SweepBarePage ==
    /\ pc = "entity"
    /\ Iteration("done", PageBare, AllOk)

\* await asyncio.sleep(random.uniform(5, 15)) is over: the next entity.
SweepDelay ==
    /\ pc = "delay"
    /\ idx' = idx + 1
    /\ pc' = "entity"
    /\ last' = NoCall
    /\ UNCHANGED <<now, acked, signals, signal_history, rows, log, pend, stat>>

\* ------------------------------------------------------------- handlers
\* text() "sig_add" up to "if await db.signal_exists(sid)", and the loop body
\* of syncsubs_cmd up to "if not await db.signal_exists(s["id"])": a known
\* id ends the flow, otherwise the insert is still to come.
AddCheck ==
    /\ \E row \in AddRequests :
          /\ last' = [op |-> "signal_exists", sig |-> row.id,
                      ret |-> signal_exists(signals, row.id)]
          /\ IF signal_exists(signals, row.id) \/ row \in pend
             THEN pend' = pend
             ELSE /\ Cardinality(pend) < MaxPending
                  /\ pend' = pend \cup {row}
    /\ UNCHANGED <<now, acked, signals, signal_history, sweepVars, stat>>

\* text() "sig_add" of a second message for the signal of AddRequests, up
\* to its signal_exists check.
AddCheckOther ==
    /\ \E row \in {OtherManualRow(r.id) : r \in AddRequests} :
          /\ last' = [op |-> "signal_exists", sig |-> row.id,
                      ret |-> signal_exists(signals, row.id)]
          /\ IF signal_exists(signals, row.id) \/ row \in pend
             THEN pend' = pend
             ELSE /\ Cardinality(pend) < MaxPending
                  /\ pend' = pend \cup {row}
    /\ UNCHANGED <<now, acked, signals, signal_history, sweepVars, stat>>

\* text() "sig_add": url_ok(url) is False, "URL dead.", nothing is inserted.
AddUrlDead ==
    /\ \E row \in pend :
          /\ ~row.auto
          /\ pend' = pend \ {row}
          /\ last' = [op |-> "url_ok", sig |-> row.id, ret |-> FALSE]
    /\ UNCHANGED <<now, acked, signals, signal_history, sweepVars, stat>>

\* await db.add_signal(...) of either flow.
AddInsert ==
    /\ \E row \in pend :
          /\ signals' = add_signal(signals, row)
          /\ pend' = pend \ {row}
          /\ last' = [op |-> "add_signal", sig |-> row.id, row |-> row,
                      ret |-> add_signal_ret(signals, row)]
    /\ UNCHANGED <<now, acked, signal_history, sweepVars, stat>>

\* text() "sig_del": await db.remove_signal(sid) for the digits of the text.
SigDel ==
    /\ \E sid \in Ids \cup {IdGone} :
          /\ signals' = remove_signal(signals, sid)
          /\ signal_history' = remove_signal_history(signal_history, sid)
          /\ last' = [op |-> "remove_signal", sig |-> sid,
                      ret |-> remove_signal_ret(signals, sid)]
    /\ UNCHANGED <<now, acked, sweepVars, pend, stat>>

\* menu_cb "stat_<sid>": info = await db.history_diff(sid), its first read.
\* Without a latest row history_diff returns None ("No history.").
StatLatest ==
    /\ stat = None
    /\ \E sid \in Ids \cup {IdGone} :
          LET l == latest_history(signal_history, sid)
          IN  IF IsNone(l)
              THEN /\ stat' = None
                   /\ last' = [op |-> "history_diff", by |-> "menu_cb", sig |-> sid,
                               ret |-> None]
              ELSE /\ stat' = Some([sid |-> sid, latest |-> l])
                   /\ last' = [op |-> "latest_history", sig |-> sid, ret |-> l]
    /\ UNCHANGED <<now, acked, signals, signal_history, sweepVars, pend>>

\* history_diff of menu_cb, its second read and its result.
StatPrevious ==
    /\ stat # None
    /\ LET sid  == Val(stat).sid
           l    == Val(stat).latest
           prev == previous_history(signal_history, sid, Val(l).ts)
       IN  last' = [op |-> "history_diff", by |-> "menu_cb", sig |-> sid,
                    ret |-> Some(history_diff_ret(l, prev))]
    /\ stat' = None
    /\ UNCHANGED <<now, acked, signals, signal_history, sweepVars, pend>>

\* A call of db.history_at(sig_id, ts).
HistoryAt ==
    /\ \E sid \in Ids \cup {IdGone}, t \in 0..(MaxTime + 1) :
          last' = [op |-> "history_at", sig |-> sid, ts |-> t,
                   ret |-> history_at(signal_history, sid, t)]
    /\ UNCHANGED <<now, acked, signals, signal_history, sweepVars, pend, stat>>

\* ------------------------------------------- the pure functions, called
\* Longest text of the exhaustive inputs of _num.
MaxLen == 5

\* The characters of those texts: the ones _num treats differently.
NumChars == {"(", ")", "-", "+", "4", ".", ",", " ", "a"}

\* Texts whose value is a whole number of 1/Scale: at most one digit follows
\* a decimal point.
OneDecimal(text) ==
    \A i \in 1..Len(text) :
        text[i] = "." => Cardinality({k \in (i + 1)..Len(text) : IsDigit(text[k])}) <= 1

\* Texts of the pages and of the specification's examples.
NumExamples ==
    { <<"(", "4", "5", ".", "2", ")">>,
      <<"(", "+", "4", "5", ".", "2", ")">>,
      <<"(", "-", "4", "5", ".", "2", ")">>,
      <<"1", ",", "0", "2", "4">>,
      <<"1", ",", "2", "3", "4", ".", "5">>,
      << >>,
      <<"n", "/", "a">>,
      <<"a", "b", "c">>,
      <<" ", "1", "2", ".", "5", "%", " ">>,
      <<"(", "6", ".", "5", "%", ")">> }

\* The arguments _num is called with: None, every text of at most MaxLen
\* characters, and the examples.
NumInputs ==
    {None}
    \cup {Some(t) : t \in {u \in UNION {[1..n -> NumChars] : n \in 0..MaxLen} : OneDecimal(u)}}
    \cup {Some(t) : t \in NumExamples}

\* A call of _num(text). The result of a pure function does not depend on
\* the calls made before: one call from the initial state covers them all.
NumCall ==
    /\ last = NoCall
    /\ \E text \in NumInputs :
          last' = [op |-> "_num", text |-> text, ret |-> _num(text)]
    /\ UNCHANGED <<now, acked, signals, signal_history, sweepVars, pend, stat>>

\* The counts of the "Latest trade:" texts, with their digits.
DurNumbers ==
    { [n |-> 0, digits |-> <<"0">>],
      [n |-> 1, digits |-> <<"1">>],
      [n |-> 2, digits |-> <<"2">>],
      [n |-> 3, digits |-> <<"3">>],
      [n |-> 7, digits |-> <<"7">>],
      [n |-> 59, digits |-> <<"5", "9">>],
      [n |-> 60, digits |-> <<"6", "0">>],
      [n |-> 119, digits |-> <<"1", "1", "9">>],
      [n |-> 120, digits |-> <<"1", "2", "0">>] }

\* The words after the count, with the unit each one names.
DurWords ==
    { [unit |-> "second", word |-> <<"s", "e", "c", "o", "n", "d">>],
      [unit |-> "second", word |-> <<"s", "e", "c", "o", "n", "d", "s">>],
      [unit |-> "minute", word |-> <<"m", "i", "n", "u", "t", "e">>],
      [unit |-> "minute", word |-> <<"m", "i", "n", "u", "t", "e", "s">>],
      [unit |-> "hour", word |-> <<"h", "o", "u", "r">>],
      [unit |-> "hour", word |-> <<"h", "o", "u", "r", "s">>],
      [unit |-> "day", word |-> <<"d", "a", "y">>],
      [unit |-> "day", word |-> <<"d", "a", "y", "s">>],
      [unit |-> "week", word |-> <<"w", "e", "e", "k">>],
      [unit |-> "week", word |-> <<"w", "e", "e", "k", "s">>],
      [unit |-> "month", word |-> <<"m", "o", "n", "t", "h">>],
      [unit |-> "month", word |-> <<"m", "o", "n", "t", "h", "s">>],
      [unit |-> "unknown", word |-> <<"y", "e", "a", "r">>],
      [unit |-> "unknown", word |-> <<"y", "e", "a", "r", "s">>],
      [unit |-> "unknown", word |-> <<"h">>],
      [unit |-> "unknown", word |-> << >>] }

\* The text between the count and the word.
DurSeps == {<< >>, <<" ">>, <<" ", " ">>}

\* The text before the count.
DurBefore == {<< >>, <<"~">>}

\* The text after the word.
DurAfter == {<< >>, <<" ", "a", "g", "o">>}

\* scrape() computing latest_trade from the text of the "Latest trade:" value.
LatestTradeCall ==
    /\ last = NoCall
    /\ \E num \in DurNumbers, sep \in DurSeps, w \in DurWords,
          before \in DurBefore, after \in DurAfter :
          \E lt_val \in {before \o num.digits \o sep \o w.word \o after} :
              last' = [op |-> "latest_trade", n |-> num.n, sep |-> sep, unit |-> w.unit,
                       lt_val |-> lt_val, ret |-> MinutesOf(lt_val)]
    /\ UNCHANGED <<now, acked, signals, signal_history, sweepVars, pend, stat>>

\* One sweep after the other: periodic_scrape and scrape_all.
Sweep ==
    \/ SweepStart
    \/ SweepCrash
    \/ SweepFetchFails
    \/ SweepParseRaises
    \/ SweepDbRaises
    \/ SweepEntityDone
    \/ SweepDelay

\* The sweep and the roster administration: everything that writes.
Next ==
    \/ Tick
    \/ Sweep
    \/ AddCheck
    \/ AddUrlDead
    \/ AddInsert
    \/ SigDel

\* The sweep and the history reads.
NextReads ==
    \/ Tick
    \/ Sweep
    \/ StatLatest
    \/ StatPrevious
    \/ HistoryAt

\* The sweep over more pages, and the removals.
NextRoster ==
    \/ Tick
    \/ Sweep
    \/ SweepBarePage
    \/ SigDel

\* The add flows of three messages, the removals and the sweep, within one
\* second.
NextAdds ==
    \/ Sweep
    \/ AddCheck
    \/ AddCheckOther
    \/ AddUrlDead
    \/ AddInsert
    \/ SigDel

\* The calls of the pure functions of scraper.py.
NextPure ==
    \/ NumCall
    \/ LatestTradeCall

Spec == Init /\ [][Next]_vars

SpecReads == Init /\ [][NextReads]_vars

SpecRoster == Init /\ [][NextRoster]_vars

SpecAdds == Init /\ [][NextAdds]_vars

SpecPure == Init /\ [][NextPure]_vars

\* ------------------------------------------------------------ properties
\* The history rows of one signal.
RowsOf(hist, sig_id) == {r \in hist : r.sig_id = sig_id}

\* ret is the row of sel with the greatest ts, as the reads return it, or
\* None when sel is empty.
Newest(ret, sel) ==
    IF sel = {} THEN ret = None
    ELSE \E r \in sel : (\A q \in sel : q.ts <= r.ts) /\ ret = Some(RowDict(r))

\* The results of history_diff that the last step returned (at most one):
\* to menu_cb, or to the sweep.
DiffsReturned ==
    IF last.op = "history_diff" THEN last.ret
    ELSE IF last.op = "scrape_all" THEN last.info
    ELSE {}

\* The last step was an iteration of the sweep whose add_history returned.
Appended == last.op = "scrape_all" /\ Past(last.raised, "add_history")

\* C1: in every reachable state the history store holds at most one row per
\* (sig_id, ts): two rows with the same signal and timestamp are one row.
C1_UniqueKey ==
    \A r, q \in signal_history : r.sig_id = q.sig_id /\ r.ts = q.ts => r = q

\* A sweep appended, for a key that was stored, a snapshot with another growth.
C1_Witness ==
    /\ Appended /\ last.stored
    /\ \E r \in RowsOf(signal_history, last.sig) :
          r.ts = Val(last.data).ts /\ r.growth # Val(last.data).growth

\* C2: an append whose (sig_id, ts) is already stored leaves the whole history
\* store as it was: the stored row keeps its values, no other row changes.
C2_DuplicateIsNoOp ==
    [][(last'.op = "scrape_all" /\ last'.stored) => signal_history' = signal_history]_vars

\* An iteration ran to its end (nothing raised) although its snapshot, with
\* other trade counts, had the key of a stored row; other rows are stored too.
C2_Witness ==
    /\ last.op = "scrape_all" /\ last.stored /\ last.raised = "done"
    /\ \E r \in RowsOf(signal_history, last.sig) :
          r.ts = Val(last.data).ts /\ r.trades # Val(last.data).trades
    /\ \E q \in signal_history : q.sig_id # last.sig

\* C3, as stated: add_history returns whether it wrote a row, True for a new
\* key and False for a stored one.
C3_ReturnsWritten ==
    Appended => last.add_ret = Some(~last.stored)

\* C3, amended: add_history returns None on every call, for a new key and for
\* a stored one, and afterwards exactly one row has the key.
C3_ReturnsNone ==
    Appended =>
        /\ last.add_ret = None
        /\ Cardinality({r \in RowsOf(signal_history, last.sig) :
                           r.ts = Val(last.data).ts}) = 1

\* The second of two appends with one key has returned.
C3_Witness ==
    /\ Appended /\ last.stored /\ last.add_ret = None
    /\ Cardinality({r \in RowsOf(signal_history, last.sig) :
                       r.ts = Val(last.data).ts}) = 1

\* C4: whatever an iteration of the sweep raises (fetch, extraction, a db
\* call, the diff), the sweep goes on: it sleeps and takes the next entity
\* unless this was the last one, it only ends after the last one, and an
\* iteration whose fetch and append succeeded has its row in the store.
C4_FailureIsolation ==
    /\ last.op = "scrape_all" =>
          /\ IF last.idx < last.n
             THEN pc = "delay" /\ idx = last.idx /\ Len(rows) = last.n
             ELSE pc = "idle"
          /\ Past(last.raised, "add_history") =>
                \E r \in RowsOf(signal_history, last.sig) : r.ts = now
    /\ pc = "delay" => idx < Len(rows)
    /\ pc = "entity" => idx \in 1..Len(rows)

\* The first entity of a sweep over two raised, the second one was processed
\* to the end and its row is stored; the first has no row of this second.
C4_Witness ==
    /\ last.op = "scrape_all" /\ last.idx = 2 /\ last.n = 2
    /\ last.raised = "done" /\ last.logged = <<Id10>> /\ last.sig = Id9
    /\ \E r \in RowsOf(signal_history, Id9) : r.ts = now
    /\ ~\E r \in RowsOf(signal_history, Id10) : r.ts = now

\* The label of each field of the snapshot, and the region it is looked up in.
FieldLabels ==
    { [region |-> "list", label |-> L_Growth, field |-> "growth"],
      [region |-> "list", label |-> L_Weeks, field |-> "weeks"],
      [region |-> "list", label |-> L_Started, field |-> "start_year"],
      [region |-> "list", label |-> L_LatestTrade, field |-> "latest_trade"],
      [region |-> "cols", label |-> L_ByBalance, field |-> "drawdown"],
      [region |-> "cols", label |-> L_Monthly, field |-> "monthly_growth"],
      [region |-> "cols", label |-> L_Trades, field |-> "trades"],
      [region |-> "cols", label |-> L_ProfitTrades, field |-> "profit_trades"],
      [region |-> "cols", label |-> L_LossTrades, field |-> "loss_trades"] }

\* C5, as stated: for a fetched page, whatever labels it has, building the
\* snapshot does not raise, the field of each absent label is None, and the
\* snapshot is in the store once add_history returned.
C5_ExtractionNeverRaises ==
    (last.op = "scrape_all" /\ last.page # None) =>
        /\ last.raised # "parse"
        /\ last.data # None =>
              \A lf \in FieldLabels :
                  Lookup(Val(last.page)[lf.region], lf.label) = None
                      => Val(last.data)[lf.field] = None
        /\ Past(last.raised, "add_history") =>
              \E r \in RowsOf(signal_history, last.sig) : r.ts = now

\* C6: history_diff returns as latest the row of the signal with the greatest
\* ts (at its first read), and as previous the row with the greatest ts
\* strictly below latest's, or None when there is no such row.
C6_LatestAndPrevious ==
    /\ last.op = "latest_history" =>
          /\ last.ret # None
          /\ Newest(last.ret, RowsOf(signal_history, last.sig))
    /\ last.op = "scrape_all" =>
          \A d \in last.info : Newest(Some(d.latest), RowsOf(signal_history, last.sig))
    /\ \A d \in DiffsReturned :
          /\ \E r \in RowsOf(signal_history, last.sig) : d.latest = RowDict(r)
          /\ Newest(d.previous, {r \in RowsOf(signal_history, last.sig) :
                                    r.ts < d.latest.ts})

\* menu_cb got the diff of a signal with three rows: the latest and the one
\* before it, not the oldest.
C6_Witness ==
    /\ last.op = "history_diff" /\ last.ret # None
    /\ {r.ts : r \in RowsOf(signal_history, last.sig)} = {0, 1, 2}
    /\ Val(last.ret).latest.ts = 2
    /\ Val(last.ret).previous # None
    /\ Val(Val(last.ret).previous).ts = 1

\* C7: with a previous row, the diff has one entry per field of latest other
\* than ts, name and latest_trade: latest's value minus previous's when both
\* are not None, and None when either is None.
C7_Delta ==
    \A d \in DiffsReturned :
        d.previous # None =>
            /\ d.diff # None
            /\ DOMAIN Val(d.diff) = (DOMAIN d.latest) \ {"ts", "name", "latest_trade"}
            /\ \A f \in DOMAIN Val(d.diff) :
                  Val(d.diff)[f] =
                      IF d.latest[f] # None /\ Val(d.previous)[f] # None
                      THEN Some(Val(d.latest[f]) - Val(Val(d.previous)[f]))
                      ELSE None

\* Growth went from 10.0 to 12.5 and the loss trades from 324 to None: the
\* diff of growth is 2.5, that of loss_trades is None.
C7_Witness ==
    \E d \in DiffsReturned :
        /\ d.previous # None
        /\ Val(d.previous).growth = Some(10 * Scale)
        /\ d.latest.growth = Some(12 * Scale + 5)
        /\ Val(d.diff).growth = Some(2 * Scale + 5)
        /\ Val(d.previous).loss_trades = Some(324)
        /\ d.latest.loss_trades = None
        /\ Val(d.diff).loss_trades = None

\* C8, as stated: the diff of a signal with exactly one row has that row as
\* latest, None as previous and an empty mapping (not None) as diff.
C8_EmptyDelta ==
    \A d \in DiffsReturned :
        Cardinality(RowsOf(signal_history, last.sig)) = 1 =>
            /\ \E r \in RowsOf(signal_history, last.sig) : d.latest = RowDict(r)
            /\ d.previous = None
            /\ d.diff # None
            /\ DOMAIN Val(d.diff) = {}

\* C8, amended: the diff of a signal with exactly one row has that row as
\* latest, None as previous and None as diff.
C8_NoneDelta ==
    \A d \in DiffsReturned :
        Cardinality(RowsOf(signal_history, last.sig)) = 1 =>
            /\ \E r \in RowsOf(signal_history, last.sig) : d.latest = RowDict(r)
            /\ d.previous = None
            /\ d.diff = None

\* history_diff returned for a signal with exactly one row.
C8_Witness ==
    \E d \in DiffsReturned :
        /\ Cardinality(RowsOf(signal_history, last.sig)) = 1
        /\ d.previous = None
        /\ d.diff = None

\* C9: history_diff returns None exactly when the store has no row of the
\* signal, whether the signal is in the roster or not.
C9_NoneIffNoRow ==
    /\ last.op = "history_diff" =>
          (last.ret = None <=> RowsOf(signal_history, last.sig) = {})
    /\ (last.op = "scrape_all" /\ Past(last.raised, "history_diff")) =>
          (last.info = None <=> RowsOf(signal_history, last.sig) = {})

\* history_diff returned a diff for a signal that is not in the roster.
C9_Witness ==
    /\ last.op = "history_diff" /\ last.ret # None
    /\ ~signal_exists(signals, last.sig)

\* C10: history_at(sig_id, ts) returns the row of that signal with the
\* greatest ts not above the argument, or None when the signal has no such
\* row; rows of other signals play no part.
C10_AtOrBefore ==
    last.op = "history_at" =>
        Newest(last.ret, {r \in RowsOf(signal_history, last.sig) : r.ts <= last.ts})

\* The argument lies strictly between two stored timestamps of the signal:
\* the earlier row is returned.
C10_Witness ==
    /\ last.op = "history_at" /\ last.ts = 1
    /\ {r.ts : r \in RowsOf(signal_history, last.sig)} = {0, 2}
    /\ last.ret # None
    /\ Val(last.ret).ts = 0

\* The last step was an iteration whose diff has an entry that is neither
\* None nor zero.
DiffChanged ==
    /\ last.op = "scrape_all"
    /\ \E d \in last.info :
          /\ d.diff # None
          /\ \E f \in DOMAIN Val(d.diff) : Val(d.diff)[f] \notin {None, Some(0)}

\* C11: when the diff of an iteration has an entry that is neither None nor
\* zero and the subscriber list was read, send_message is called exactly once
\* for every subscriber, in the order of the list, whatever calls fail; the
\* iteration then ends without an exception and the sweep goes on. Without
\* such an entry nothing is sent.
C11_FanOut ==
    last.op = "scrape_all" =>
        /\ (DiffChanged /\ last.raised = "done") =>
              /\ Len(last.sends) = Len(UserIds)
              /\ \A k \in 1..Len(UserIds) : last.sends[k].uid = UserIds[k]
              /\ pc = IF last.idx < last.n THEN "delay" ELSE "idle"
        /\ ~DiffChanged => last.sends = << >>
        /\ (\E k \in 1..Len(last.sends) : ~last.sends[k].ok) => last.raised = "done"

\* The send to the first subscriber failed, the second one was sent, and the
\* sweep sleeps before its next entity.
C11_Witness ==
    /\ DiffChanged /\ last.raised = "done"
    /\ Len(last.sends) = 2 /\ ~last.sends[1].ok /\ last.sends[2].ok
    /\ pc = "delay"

\* C12, as stated: no failure at any point of a sweep, a storage failure
\* included, terminates the periodic loop.
C12_LoopNeverEnds == pc # "dead"

\* C13: an iteration whose fetch fails writes neither a history row nor the
\* roster, and the entity is not fetched again in this sweep: the sweep does
\* not stay on it, and the entities still to come have other ids.
C13_FailedFetch ==
    [][(last'.op = "scrape_all" /\ last'.raised = "fetch") =>
          /\ signal_history' = signal_history
          /\ signals' = signals
          /\ last'.data = None
          /\ pc' # "entity"
          /\ \A k \in 1..Len(rows) : k # idx => rows[k].id # rows[idx].id
          /\ pc' = "delay" => (idx' = idx /\ rows' = rows)]_vars

\* The fetch of the first of two entities failed: it has no row of this
\* second, and the sweep sleeps before the second entity.
C13_Witness ==
    /\ last.op = "scrape_all" /\ last.raised = "fetch"
    /\ last.idx = 1 /\ last.n = 2 /\ pc = "delay"
    /\ ~\E r \in RowsOf(signal_history, last.sig) : r.ts = now

\* C14: add_signal returns True and inserts the row when the id is not in the
\* roster; when it is, add_signal returns False and the roster is unchanged.
C14_AddSignal ==
    [][last'.op = "add_signal" =>
          IF \E r \in signals : r.id = last'.sig
          THEN last'.ret = FALSE /\ signals' = signals
          ELSE last'.ret = TRUE /\ signals' = signals \cup {last'.row}]_vars

\* add_signal returned False for an id whose stored row differs from the one
\* it was called with.
C14_Witness ==
    /\ last.op = "add_signal" /\ last.ret = FALSE
    /\ last.row \notin signals
    /\ \E r \in signals : r.id = last.sig

\* C15: remove_signal returns the number of roster rows it removed, 1 or 0,
\* removes the row of that id only, and leaves signal_history as it was, so
\* history_diff, latest_history and history_at return what they returned.
C15_RemoveKeepsHistory ==
    [][last'.op = "remove_signal" =>
          /\ last'.ret = IF \E r \in signals : r.id = last'.sig THEN 1 ELSE 0
          /\ signals' = {r \in signals : r.id # last'.sig}
          /\ signal_history' = signal_history
          /\ history_diff(signal_history', last'.sig) = history_diff(signal_history, last'.sig)
          /\ latest_history(signal_history', last'.sig) = latest_history(signal_history, last'.sig)
          /\ \A t \in 0..MaxTime :
                history_at(signal_history', last'.sig, t) = history_at(signal_history, last'.sig, t)]_vars

\* A signal with history rows was removed from the roster.
C15_Witness ==
    /\ last.op = "remove_signal" /\ last.ret = 1
    /\ RowsOf(signal_history, last.sig) # {}
    /\ ~signal_exists(signals, last.sig)

\* The text is fully wrapped in parentheses once its outer whitespace is
\* dropped.
Wrapped(text) ==
    \E a, b \in 1..Len(text) :
        /\ text[a] = "(" /\ text[b] = ")"
        /\ \A k \in 1..Len(text) : (k < a \/ k > b) => IsSpace(text[k])

\* C16, as stated: _num of a text fully wrapped in parentheses is never
\* positive, whatever sign stands inside the parentheses: "(45.2)", "(+45.2)"
\* and "(-45.2)" all give -45.2.
C16_ParenthesesNegative ==
    (last.op = "_num" /\ last.text # None /\ Wrapped(Val(last.text))) =>
        /\ last.ret # None => Val(last.ret) <= 0
        /\ Val(last.text) \in { <<"(", "4", "5", ".", "2", ")">>,
                                <<"(", "+", "4", "5", ".", "2", ")">>,
                                <<"(", "-", "4", "5", ".", "2", ")">> }
              => last.ret = Some(0 - (45 * Scale + 2))

\* C17: _num returns None exactly when its argument is None or a text without
\* a digit (the empty text, "n/a", "abc"); a text of digits, commas and spaces
\* with a digit gives the number its digits spell ("1,024" gives 1024), a
\* text that starts with digits followed by a letter gives the number of
\* these digits (the first number found), and "1,234.5" gives 1234.5.
C17_NoneOrNumber ==
    last.op = "_num" =>
        /\ last.ret = None <=>
              (last.text = None \/ \A i \in 1..Len(Val(last.text)) : ~IsDigit(Val(last.text)[i]))
        /\ \A t \in last.text :
              ((\A i \in 1..Len(t) : IsDigit(t[i]) \/ t[i] \in {",", " "})
               /\ (\E i \in 1..Len(t) : IsDigit(t[i])))
                  => last.ret = Some(Scale * IntOf(SelectSeq(t, IsDigit), 1,
                                                   Len(SelectSeq(t, IsDigit))))
        /\ \A t \in last.text :
              \A k \in 1..(Len(t) - 1) :
                  ((\A i \in 1..k : IsDigit(t[i])) /\ t[k + 1] = "a")
                      => last.ret = Some(Scale * IntOf(t, 1, k))
        /\ last.text = Some(<<"1", ",", "0", "2", "4">>) => last.ret = Some(1024 * Scale)
        /\ last.text = Some(<<"1", ",", "2", "3", "4", ".", "5">>)
              => last.ret = Some(1234 * Scale + 5)

\* _num("1,234.5") returned 1234.5.
C17_Witness ==
    /\ last.op = "_num"
    /\ last.text = Some(<<"1", ",", "2", "3", "4", ".", "5">>)
    /\ last.ret = Some(1234 * Scale + 5)

\* C18: the latest trade of "<n> <unit>", with whitespace between the count
\* and a known unit, is n times 1 (minute), 60 (hour), 1440 (day), 10080
\* (week), 43200 (month), and n divided by 60, rounded down, for seconds;
\* with another word, or with nothing between count and word, it is None.
C18_Minutes ==
    last.op = "latest_trade" =>
        last.ret =
            IF last.sep = << >> \/ last.unit = "unknown" THEN None
            ELSE IF last.unit = "second" THEN Some(last.n \div 60)
            ELSE IF last.unit = "minute" THEN Some(last.n)
            ELSE IF last.unit = "hour" THEN Some(last.n * 60)
            ELSE IF last.unit = "day" THEN Some(last.n * 1440)
            ELSE IF last.unit = "week" THEN Some(last.n * 10080)
            ELSE Some(last.n * 43200)

\* "119 seconds ago" gave 1 minute.
C18_Witness ==
    /\ last.op = "latest_trade" /\ last.unit = "second" /\ last.n = 119
    /\ last.sep = <<" ">> /\ last.ret = Some(1)

\* C19: the sweep sleeps between entities only. After the roster is read it
\* takes the first entity at once, or ends when there is none; after an
\* iteration, raised or not, it sleeps exactly when an entity is left, and
\* otherwise ends; a sleep begins only after an iteration and ends by taking
\* the next entity: entity k of n is followed by a sleep iff k < n.
C19_DelaysBetween ==
    [][/\ last'.op = "list_signals" =>
             IF last'.n = 0 THEN pc' = "idle"
             ELSE pc' = "entity" /\ idx' = 1 /\ Len(rows') = last'.n
       /\ last'.op = "scrape_all" =>
             pc' = IF idx < Len(rows) THEN "delay" ELSE "idle"
       /\ (pc' = "delay" /\ pc # "delay") => (last'.op = "scrape_all" /\ pc = "entity")
       /\ (pc = "delay" /\ pc' # "delay") =>
             (pc' = "entity" /\ idx' = idx + 1 /\ rows' = rows)
       /\ pc' = "delay" => (idx' \in 1..(Len(rows') - 1) /\ idx' = idx)]_vars

\* The sweep sleeps after the first of two entities, whose fetch failed.
C19_Witness ==
    /\ pc = "delay" /\ idx = 1 /\ Len(rows) = 2
    /\ last.op = "scrape_all" /\ last.raised = "fetch"

\* C20: a sweep reads the roster once, when it starts: rows holds the ids of
\* signals at that moment in ascending (TEXT) order and does not change until
\* the sweep ends, whatever is added or removed meanwhile. The iterations
\* take rows[1], rows[2], ... one after the other, each once: an iteration is
\* for rows[idx], and idx only moves from k to k + 1, after the iteration of k.
C20_OneAtATime ==
    [][/\ last'.op = "list_signals" =>
             /\ pc = "idle"
             /\ {rows'[k].id : k \in 1..Len(rows')} = {r.id : r \in signals}
             /\ Len(rows') = Cardinality(signals)
             /\ \A k \in 1..(Len(rows') - 1) : LexLess(rows'[k].id, rows'[k + 1].id)
       /\ (pc \in {"entity", "delay"} /\ pc' \in {"entity", "delay"}) => rows' = rows
       /\ last'.op = "scrape_all" =>
             (pc = "entity" /\ last'.sig = rows[idx].id /\ pc' # "entity")
       /\ pc' = "entity" =>
             \/ pc = "idle" /\ idx' = 1 /\ last'.op = "list_signals"
             \/ pc = "delay" /\ idx' = idx + 1 /\ idx' <= Len(rows)
             \/ pc = "entity" /\ idx' = idx /\ last'.op # "scrape_all"]_vars

\* A sweep over a roster of one ended while the roster holds a second signal,
\* added after the sweep had read the roster.
C20_Witness ==
    /\ last.op = "scrape_all" /\ last.n = 1 /\ last.sig = Id10
    /\ pc = "idle"
    /\ signal_exists(signals, Id9)

\* C21: once add_history(sig_id, ts = t) has returned, every later
\* history_at(sig_id, t) returns a row whose ts is t, and every later read of
\* the latest row of sig_id (latest_history, by menu_cb or inside the sweep's
\* history_diff) returns a row whose ts is at least t: no read misses an
\* append that has returned.
C21_ReadAfterAppend ==
    \A k \in acked :
        /\ (last.op = "history_at" /\ last.sig = k.sig_id /\ last.ts = k.ts) =>
              (last.ret # None /\ Val(last.ret).ts = k.ts)
        /\ (last.op = "latest_history" /\ last.sig = k.sig_id) =>
              (last.ret # None /\ Val(last.ret).ts >= k.ts)
        /\ (last.op = "history_diff" /\ last.sig = k.sig_id) => last.ret # None
        /\ (last.op = "scrape_all" /\ last.sig = k.sig_id
            /\ Past(last.raised, "history_diff")) =>
              (last.info # None /\ Val(last.info).latest.ts >= k.ts)

\* Two appends of one signal have returned, at seconds 1 and 2, and
\* history_at for second 1 returned the row of second 1.
C21_Witness ==
    /\ last.op = "history_at" /\ last.ts = 1
    /\ [sig_id |-> last.sig, ts |-> 1] \in acked
    /\ [sig_id |-> last.sig, ts |-> 2] \in acked
    /\ last.ret # None
    /\ Val(last.ret).ts = 1

\* The fields the claims name as compared between two snapshots.
ComparedFields ==
    {"drawdown", "monthly_growth", "weeks", "growth", "trades", "profit_trades",
     "loss_trades", "start_year"}

\* C22: an iteration of the sweep sends nothing when history_diff returned
\* no previous row, or a diff whose every entry is None or zero. So nothing
\* is sent when the signal has one row only (its first snapshot), nor when
\* latest and previous have the same values in all compared fields.
C22_NothingToReport ==
    last.op = "scrape_all" =>
        /\ last.info = None => last.sends = << >>
        /\ \A d \in last.info :
              /\ d.previous = None => last.sends = << >>
              /\ (d.diff # None
                  /\ \A f \in DOMAIN Val(d.diff) : Val(d.diff)[f] \in {None, Some(0)})
                     => last.sends = << >>
              /\ (d.previous # None
                  /\ \A f \in ComparedFields : d.latest[f] = Val(d.previous)[f])
                     => last.sends = << >>
        /\ Cardinality(RowsOf(signal_history, last.sig)) = 1 => last.sends = << >>

\* An iteration ran to its end for a signal whose latest and previous rows
\* agree in every compared field, one of them None in both: nothing was sent.
C22_Witness ==
    /\ last.op = "scrape_all" /\ last.raised = "done" /\ last.sends = << >>
    /\ \E d \in last.info :
          /\ d.previous # None
          /\ \A f \in ComparedFields : d.latest[f] = Val(d.previous)[f]
          /\ d.latest.loss_trades = None
          /\ d.latest.growth # None

\* C23, as stated: when an iteration of the sweep sends a notification, its
\* add_history wrote a new row and the latest row of the diff it reports is
\* the snapshot this iteration captured; an iteration whose append was
\* ignored (the key was stored) sends nothing.
C23_ReportsOwnSnapshot ==
    (last.op = "scrape_all" /\ last.sends # << >>) =>
        /\ ~last.stored
        /\ \A d \in last.info :
              d.latest = RowDict(HistoryRow(last.sig, Val(last.data)))

\* C24: with a previous row, the diff history_diff returns has exactly the
\* keys drawdown, monthly_growth, weeks, growth, trades, profit_trades,
\* loss_trades and start_year, never name, ts or latest_trade, whatever the
\* two rows hold; an iteration of the sweep whose latest and previous rows
\* differ in name, ts or latest_trade only sends nothing.
C24_ComparedKeys ==
    /\ \A d \in DiffsReturned :
          d.previous # None =>
              /\ d.diff # None
              /\ DOMAIN Val(d.diff) = ComparedFields
              /\ DOMAIN Val(d.diff) \cap {"name", "ts", "latest_trade"} = {}
    /\ last.op = "scrape_all" =>
          \A d \in last.info :
              (d.previous # None
               /\ \A f \in (DOMAIN d.latest) \ {"name", "ts", "latest_trade"} :
                     d.latest[f] = Val(d.previous)[f])
                  => last.sends = << >>

\* The latest trade moved from 180 to 120 minutes between two rows that
\* agree in all compared fields: the iteration ran to its end, nothing sent.
C24_Witness ==
    /\ last.op = "scrape_all" /\ last.raised = "done" /\ last.sends = << >>
    /\ \E d \in last.info :
          /\ d.previous # None
          /\ Val(d.previous).latest_trade = Some(180)
          /\ d.latest.latest_trade = Some(120)
          /\ \A f \in ComparedFields : d.latest[f] = Val(d.previous)[f]

\* C25: no step of the system (an iteration of the sweep with its append,
\* roster refresh and history_diff, the start of a sweep, an add flow, a
\* removal, the clock) deletes a stored history row or changes one of its
\* fields: every row of signal_history is a row of signal_history afterwards.
C25_AppendOnly ==
    [][\A r \in signal_history : r \in signal_history']_vars

\* A signal swept at seconds 0, 1 and 2 was removed from the roster: its
\* three rows are stored.
C25_Witness ==
    /\ last.op = "remove_signal" /\ last.ret = 1
    /\ {r.ts : r \in RowsOf(signal_history, last.sig)} = {0, 1, 2}

\* The roster columns update_signal_info is given by the sweep.
RosterFields == {"name", "weeks", "latest_trade", "start_year"}

\* C26: an iteration of the sweep adds no roster row and removes none, and
\* leaves id, url and auto of every row as they were. Once its
\* update_signal_info returned, each of name, weeks, latest_trade and
\* start_year of the row of its signal is the snapshot's value when that is
\* not None and the old value when it is None, so no field becomes None; the
\* other rows are unchanged, and with four None values so is the whole roster.
C26_RosterRefresh ==
    [][last'.op = "scrape_all" =>
          /\ Cardinality(signals') = Cardinality(signals)
          /\ \A r \in signals :
                \E q \in signals' :
                    /\ q.id = r.id /\ q.url = r.url /\ q.auto = r.auto
                    /\ IF r.id = last'.sig /\ Past(last'.raised, "update_signal_info")
                       THEN \A f \in RosterFields :
                               /\ q[f] = IF Val(last'.data)[f] # None
                                         THEN Val(last'.data)[f] ELSE r[f]
                               /\ r[f] # None => q[f] # None
                       ELSE q = r
          /\ (Past(last'.raised, "update_signal_info")
              /\ \A f \in RosterFields : Val(last'.data)[f] = None)
                 => signals' = signals]_vars

\* An iteration ran to its end on a snapshot whose name, weeks, latest_trade
\* and start_year are all None; the roster row of its signal holds a value in
\* each of the four.
C26_Witness ==
    /\ last.op = "scrape_all" /\ last.raised = "done"
    /\ \A f \in RosterFields : Val(last.data)[f] = None
    /\ \E r \in signals : r.id = last.sig /\ \A f \in RosterFields : r[f] # None

\* C27: however the add flows (each an exists-check, then an insert), the
\* removals and the sweep interleave, the roster never holds two rows with
\* one id; a step that is not a removal keeps id, url and auto of every
\* roster row; and an add_signal for an id that is in the roster returns
\* False without changing the roster, while one for a new id returns True.
C27_ConcurrentAdds ==
    [][/\ \A r, q \in signals' : r.id = q.id => r = q
       /\ last'.op # "remove_signal" =>
             \A r \in signals :
                 \E q \in signals' : q.id = r.id /\ q.url = r.url /\ q.auto = r.auto
       /\ last'.op = "add_signal" =>
             /\ last'.ret = (\A r \in signals : r.id # last'.sig)
             /\ ~last'.ret => signals' = signals
             /\ \E q \in signals' : q.id = last'.sig]_vars

\* During a sweep, the add_signal of a manual flow returned False: another
\* manual flow with another URL had inserted the id after this flow's
\* exists-check, and its row is the stored one.
C27_Witness ==
    /\ last.op = "add_signal" /\ ~last.ret /\ ~last.row.auto
    /\ pc \in {"entity", "delay"}
    /\ \E r \in signals : r.id = last.sig /\ ~r.auto /\ r.url # last.row.url

\* C28: history_diff reads latest, then previous; whatever the sweep
\* appends between the two reads, in the pair it returns previous is older
\* than latest, both are stored rows of the signal, no row of the signal
\* stored at the second read has a ts strictly between theirs, and previous
\* is None exactly when no row older than latest is stored at that moment.
C28_ConsistentPair ==
    \A d \in DiffsReturned :
        /\ \E r \in RowsOf(signal_history, last.sig) : RowDict(r) = d.latest
        /\ \A p \in d.previous :
              /\ p.ts < d.latest.ts
              /\ \E r \in RowsOf(signal_history, last.sig) : RowDict(r) = p
              /\ ~\E r \in RowsOf(signal_history, last.sig) :
                     p.ts < r.ts /\ r.ts < d.latest.ts
        /\ d.previous = None <=>
              ~\E r \in RowsOf(signal_history, last.sig) : r.ts < d.latest.ts

\* menu_cb read the latest row (second 1), the sweep then appended a row
\* of second 2, and the second read returned the row of second 0.
C28_Witness ==
    /\ last.op = "history_diff" /\ last.by = "menu_cb" /\ last.ret # None
    /\ Val(last.ret).latest.ts = 1
    /\ \E r \in RowsOf(signal_history, last.sig) : r.ts = 2
    /\ \E p \in Val(last.ret).previous : p.ts = 0

=============================================================================
